---- MODULE Spec2Model ----
(***************************************************************************)
(* Model of sardana's attribute engine (src/src/sardana/sardanaattribute.py)*)
(*                                                                         *)
(*   SardanaAttribute, SardanaSoftwareAttribute, ScalarNumberAttribute:    *)
(*   read/write slots, change-filtered read events, unfiltered write       *)
(*   events.                                                               *)
(*   Buffer, BufferedAttribute: index-addressed value buffer with a last   *)
(*   chunk, late/early misses and demand-driven persistence.               *)
(*                                                                         *)
(* One attribute object is modelled.  Its class is chosen in Init.  Every  *)
(* public method is one action; the events the method publishes through    *)
(* EventGenerator.fire_event are collected, in order, in `events`, each    *)
(* with the attribute state a listener reads during its callback.          *)
(***************************************************************************)
EXTENDS Integers, Sequences, FiniteSets

VARIABLES
    kind,               \* class of the attribute object
    obj,                \* self._obj: the weak reference to the owner
    r_value,            \* self._r_value
    w_value,            \* self._w_value
    last_event_value,   \* self._last_event_value
    filter,             \* self.filter
    r_value_buffer,     \* self._r_value_buffer (BufferedAttribute)
    pseudo_elements,    \* owner's dependent elements: next_idx of each one's value attribute
    listeners,          \* the listeners EventGenerator keeps for the attribute
    buffered_attribute_listeners,   \* self._buffered_attribute_listeners
    threads,            \* the calls in progress: each thread's position and locals
    unrequired,         \* the indexes written while the owner had no dependent element
    call,               \* the method called last, with its arguments
    ret,                \* what that call returned or raised
    events              \* the events that call published, in order

\* the listener lists, the calls in progress and the note of the indexes
\* written for nobody (kept by NoteAppendValueBuffer alone): what a method
\* that runs in one step and registers nothing leaves alone
apart == <<listeners, buffered_attribute_listeners, threads, unrequired>>

vars == <<kind, obj, r_value, w_value, last_event_value, filter,
          r_value_buffer, pseudo_elements, listeners,
          buffered_attribute_listeners, threads, unrequired, call, ret, events>>

----------------------------------------------------------------------------
(* Bounds of the model *)

MaxVal == 2         \* payloads of the scalar slots are 0..MaxVal
MaxTime == 2        \* timestamps are 1..MaxTime
MaxIdx == 2         \* explicit buffer indexes are 0..MaxIdx
MaxLen == 2         \* extend() is called with at most MaxLen values
MaxPseudo == 1      \* the owner has at most MaxPseudo dependent elements

----------------------------------------------------------------------------
(* Values *)

\* Python objects are records, so that any two of them can be compared:
\* None, a number n as Py(n), a SardanaValue as a record of its fields
None == [none |-> TRUE]
Py(n) == [py |-> n]

Kinds == {"SardanaAttribute", "SardanaSoftwareAttribute",
          "ScalarNumberAttribute", "BufferedAttribute"}

Values == {Py(n) : n \in 0..MaxVal}
Times == {Py(n) : n \in 1..MaxTime}
Propagates == 0..2

\* the attribute's name, from which the event types are built
name == "attr"

\* SardanaValue(value=, timestamp=): timestamp None means 'now'
SardanaValue(value, timestamp, now) ==
    [value |-> value, timestamp |-> IF timestamp = None THEN now ELSE timestamp]

SardanaValues == {SardanaValue(v, t, t) : v \in Values, t \in Times}

\* isinstance(value, SardanaValue)
IsSardanaValue(value) == "timestamp" \in DOMAIN value

\* a thread that is in no call of the attribute
Idle == [pc |-> "idle"]

Return(v) == [kind |-> "return", value |-> v]
Raise(e) == [kind |-> "raise", exc |-> e]

----------------------------------------------------------------------------
(* Change filters *)

Tolerance == 1

Abs(n) == IF n < 0 THEN -n ELSE n

\* sardanadefs.ScalarNumberFilter: a numeric tolerance filter
ScalarNumberFilter(a, b) == Abs(a.py - b.py) > Tolerance

Filters == {"pass", "ScalarNumberFilter", "reject"}

\* self.filter(a, b): "pass" is the constructor's lambda a, b: True,
\* "reject" a filter assigned by the user that returns False
ApplyFilter(f, a, b) ==
    CASE f = "pass" -> TRUE
      [] f = "ScalarNumberFilter" -> ScalarNumberFilter(a, b)
      [] f = "reject" -> FALSE

----------------------------------------------------------------------------
(* SardanaAttribute.  `self` is the record of the object's fields that the *)
(* methods assign, plus the events published so far by the running call.   *)

Self == [obj |-> obj, r_value |-> r_value, w_value |-> w_value,
         last_event_value |-> last_event_value,
         r_value_buffer |-> r_value_buffer, events |-> <<>>]

has_value(self) == self.r_value # None

has_write_value(self) == self.w_value # None

\* the object that owns the attribute
Owner == [owner |-> TRUE]

\* _get_obj: the owner, or None when there is none or it is dead
get_obj(o) == IF o = "present" THEN Owner ELSE None

\* _get_value_obj: the message of its exception is built from self.obj.name,
\* which fails in its turn when there is no owner
get_value_obj(self) ==
    IF ~has_value(self)
    THEN IF get_obj(self.obj) = None THEN Raise("AttributeError")
         ELSE Raise("Exception")
    ELSE Return(self.r_value)

get_value(self) ==
    IF get_value_obj(self).kind = "raise" THEN get_value_obj(self)
    ELSE Return(get_value_obj(self).value.value)

get_write_value_obj(self) ==
    IF has_write_value(self) THEN Return(self.w_value) ELSE Return(None)

\* _get_write_value raising on an empty slot as _get_value_obj does
get_write_value_Strict(self) ==
    IF ~has_write_value(self)
    THEN IF get_obj(self.obj) = None THEN Raise("AttributeError")
         ELSE Raise("Exception")
    ELSE Return(self.w_value.value)

get_write_value(self) ==
    IF get_write_value_obj(self).value # None
    THEN Return(get_write_value_obj(self).value.value)
    ELSE Return(None)

get_timestamp(self) ==
    IF has_value(self) THEN Return(self.r_value.timestamp) ELSE Return(None)

get_write_timestamp(self) ==
    IF has_write_value(self) THEN Return(self.w_value.timestamp) ELSE Return(None)

\* EventGenerator.fire_event(evt_type, self): listeners run synchronously and
\* receive the attribute itself, so they read its fields as they are now
fire_event(self, type, priority) ==
    [self EXCEPT !.events = Append(@, [type |-> type, priority |-> priority,
                                       r_value |-> self.r_value,
                                       w_value |-> self.w_value,
                                       last_event_value |-> self.last_event_value,
                                       r_value_buffer |-> self.r_value_buffer])]

\* accepts without its second test: the first value is filtered like the others
accepts_FirstFiltered(self, f, propagate) ==
    IF propagate < 1 THEN FALSE
    ELSE propagate > 1
         \/ /\ self.last_event_value # None
            /\ ApplyFilter(f, get_value(self).value, self.last_event_value.value)

accepts(self, f, propagate) ==
    IF propagate < 1 THEN FALSE
    ELSE IF self.last_event_value = None THEN TRUE
    ELSE propagate > 1
         \/ ApplyFilter(f, get_value(self).value, self.last_event_value.value)

\* fire_write_event keeping quiet about a value equal to the one published last
fire_write_event_Unchanged(self, propagate) ==
    IF propagate < 1 THEN self
    ELSE IF /\ self.last_event_value # None
            /\ self.w_value.value = self.last_event_value.value
    THEN self
    ELSE fire_event(self, "w_" \o name, propagate)

fire_write_event(self, propagate) ==
    IF propagate < 1 THEN self
    ELSE fire_event(self, "w_" \o name, propagate)

\* fire_read_event taking every value it is given as the next baseline,
\* published or not
fire_read_event_MoveBaseline(self, f, o, propagate) ==
    IF accepts(self, f, propagate) /\ get_obj(o) # None
    THEN fire_event([self EXCEPT !.last_event_value = self.r_value],
                    name, propagate)
    ELSE [self EXCEPT !.last_event_value = self.r_value]

\* fire_read_event without the test of the owner
fire_read_event_Ownerless(self, f, o, propagate) ==
    IF accepts(self, f, propagate)
    THEN fire_event([self EXCEPT !.last_event_value = self.r_value],
                    name, propagate)
    ELSE self

\* fire_read_event publishing before it records the emitted value
fire_read_event_FireFirst(self, f, o, propagate) ==
    IF accepts(self, f, propagate) /\ get_obj(o) # None
    THEN [fire_event(self, name, propagate) EXCEPT !.last_event_value = self.r_value]
    ELSE self

fire_read_event(self, f, o, propagate) ==
    IF accepts(self, f, propagate) /\ get_obj(o) # None
    THEN fire_event([self EXCEPT !.last_event_value = self.r_value],
                    name, propagate)
    ELSE self

\* _set_value keeping the old read value when the event is not accepted
_set_value_StoreIfAccepted(self, f, o, value, timestamp, now, propagate) ==
    LET rvalue == IF IsSardanaValue(value) THEN value
                  ELSE SardanaValue(value, timestamp, now)
    IN IF accepts([self EXCEPT !.r_value = rvalue], f, propagate)
       THEN fire_read_event([self EXCEPT !.r_value = rvalue], f, o, propagate)
       ELSE self

\* SardanaAttribute._set_value
_set_value(self, f, o, value, timestamp, now, propagate) ==
    LET rvalue == IF IsSardanaValue(value) THEN value
                  ELSE SardanaValue(value, timestamp, now)
    IN fire_read_event([self EXCEPT !.r_value = rvalue], f, o, propagate)

\* SardanaAttribute._set_write_value
_set_write_value(self, w, timestamp, now, propagate) ==
    LET wvalue == IF IsSardanaValue(w) THEN w
                  ELSE SardanaValue(w, timestamp, now)
    IN fire_write_event([self EXCEPT !.w_value = wvalue], propagate)

\* SardanaSoftwareAttribute.set_value mirroring the value without the read
\* timestamp: the write value is stamped by the clock
Software_set_value_Now(self, f, o, value, timestamp, now, propagate) ==
    LET s1 == _set_value(self, f, o, value, timestamp, now, 1)
    IN _set_write_value(s1, value, None, now, 1)

\* SardanaSoftwareAttribute.set_value: the propagate argument is not passed on
Software_set_value(self, f, o, value, timestamp, now, propagate) ==
    LET s1 == _set_value(self, f, o, value, timestamp, now, 1)
    IN _set_write_value(s1, value, get_timestamp(s1).value, now, 1)

\* set_value as dispatched on the object's class
set_value(k, self, f, o, value, timestamp, now, propagate) ==
    IF k = "SardanaSoftwareAttribute"
    THEN Software_set_value(self, f, o, value, timestamp, now, propagate)
    ELSE _set_value(self, f, o, value, timestamp, now, propagate)

----------------------------------------------------------------------------
(* Buffer.  The object is a record: `map` is the dict the Buffer itself   *)
(* is (index -> object; no method of the module reads its order),          *)
(* `last_chunk` is None or an OrderedDict, `next_idx` the counter.         *)

\* OrderedDict(): its items, pairs <<key, object>> in insertion order
OrderedDict(items) == [items |-> items]

\* d[k] = v on a dict kept as a function
Put(d, k, v) == [i \in (DOMAIN d) \cup {k} |-> IF i = k THEN v ELSE d[i]]

\* d.pop(k) for a key that is present
Pop(d, k) == [i \in (DOMAIN d) \ {k} |-> d[i]]

\* d[k] = v on an OrderedDict: a new key goes last, a known key keeps its place
PutOrdered(od, k, v) ==
    IF \E i \in DOMAIN od.items : od.items[i][1] = k
    THEN OrderedDict([i \in DOMAIN od.items |->
                        IF od.items[i][1] = k THEN <<k, v>> ELSE od.items[i]])
    ELSE OrderedDict(Append(od.items, <<k, v>>))

\* Buffer.__init__ with objs=None
EmptyBuffer == [map |-> << >>, last_chunk |-> None, next_idx |-> 0]

\* Buffer.append taking out of the buffer the index of a value it does not keep
Buffer_append_DropUnkept(buf, o, idx, persistent) ==
    LET k == IF idx = None THEN buf.next_idx ELSE idx.py
    IN [map |-> IF persistent THEN Put(buf.map, k, o)
                ELSE IF k \in DOMAIN buf.map THEN Pop(buf.map, k) ELSE buf.map,
        last_chunk |-> PutOrdered(OrderedDict(<<>>), k, o),
        next_idx |-> k + 1]

\* Buffer.append counting the writes instead of following the index
Buffer_append_CountWrites(buf, o, idx, persistent) ==
    LET k == IF idx = None THEN buf.next_idx ELSE idx.py
    IN [map |-> IF persistent THEN Put(buf.map, k, o) ELSE buf.map,
        last_chunk |-> PutOrdered(OrderedDict(<<>>), k, o),
        next_idx |-> buf.next_idx + 1]

\* Buffer.append
Buffer_append(buf, o, idx, persistent) ==
    LET k == IF idx = None THEN buf.next_idx ELSE idx.py
    IN [map |-> IF persistent THEN Put(buf.map, k, o) ELSE buf.map,
        last_chunk |-> PutOrdered(OrderedDict(<<>>), k, o),
        next_idx |-> k + 1]

\* the loop of Buffer.extend: for idx, obj in enumerate(objs, initial_idx)
RECURSIVE ExtendLoop(_, _, _, _)
ExtendLoop(buf, objs, idx, persistent) ==
    IF objs = <<>> THEN buf
    ELSE ExtendLoop([buf EXCEPT
                        !.last_chunk = PutOrdered(@, idx, Head(objs)),
                        !.map = IF persistent THEN Put(@, idx, Head(objs)) ELSE @],
                    Tail(objs), idx + 1, persistent)

\* Buffer.extend adding to the chunk of the call before instead of a new one
Buffer_extend_KeepChunk(buf, objs, initial_idx, persistent) ==
    LET first == IF initial_idx = None THEN buf.next_idx ELSE initial_idx.py
        kept == IF buf.last_chunk = None THEN OrderedDict(<<>>) ELSE buf.last_chunk
        looped == ExtendLoop([buf EXCEPT !.last_chunk = kept],
                             objs, first, persistent)
    IN IF objs = <<>>
       THEN [buffer |-> looped, ret |-> Raise("UnboundLocalError")]
       ELSE [buffer |-> [looped EXCEPT !.next_idx = (first + Len(objs) - 1) + 1],
             ret |-> Return(None)]

\* Buffer.extend: the buffer it leaves and how it ends.  The statement after
\* the loop reads the loop variable, which is unbound when objs is empty.
Buffer_extend(buf, objs, initial_idx, persistent) ==
    LET first == IF initial_idx = None THEN buf.next_idx ELSE initial_idx.py
        looped == ExtendLoop([buf EXCEPT !.last_chunk = OrderedDict(<<>>)],
                             objs, first, persistent)
    IN IF objs = <<>>
       THEN [buffer |-> looped, ret |-> Raise("UnboundLocalError")]
       ELSE [buffer |-> [looped EXCEPT !.next_idx = (first + Len(objs) - 1) + 1],
             ret |-> Return(None)]

----------------------------------------------------------------------------
(* BufferedAttribute *)

\* owner.has_pseudo_elements(): the owner has dependent (pseudo) elements
has_pseudo_elements(pe) == Len(pe) > 0

\* a Python bool
Bool(b) == [bool |-> b]

\* BufferedAttribute.is_value_required: some dependent element's value
\* attribute has not got to idx yet.  self.obj.get_pseudo_elements() fails on
\* an owner that is None.
is_value_required(o, pe, idx) ==
    IF get_obj(o) = None THEN Raise("AttributeError")
    ELSE Return(Bool(\E i \in DOMAIN pe : pe[i].next_idx <= idx.py))

\* get_value taking the index about to be assigned for one already passed
Buffered_get_value_LateAtNext(self, idx) ==
    IF idx = None THEN get_value(self)
    ELSE IF idx.py \in DOMAIN self.r_value_buffer.map
    THEN Return(self.r_value_buffer.map[idx.py].value)
    ELSE IF self.r_value_buffer.next_idx >= idx.py
    THEN Raise("LateValueException")
    ELSE Raise("EarlyValueException")

\* BufferedAttribute.get_value
Buffered_get_value(self, idx) ==
    IF idx = None THEN get_value(self)
    ELSE IF idx.py \in DOMAIN self.r_value_buffer.map
    THEN Return(self.r_value_buffer.map[idx.py].value)
    ELSE IF self.r_value_buffer.next_idx > idx.py
    THEN Raise("LateValueException")
    ELSE Raise("EarlyValueException")

\* remove_value evicting every index up to idx instead of idx alone
remove_value_UpTo(self, idx) ==
    [self EXCEPT !.r_value_buffer.map =
        [i \in {j \in DOMAIN @ : j > idx.py} |-> @[i]]]

\* BufferedAttribute.remove_value
remove_value(self, idx) ==
    IF idx.py \in DOMAIN self.r_value_buffer.map
    THEN [self EXCEPT !.r_value_buffer.map = Pop(@, idx.py)]
    ELSE self

fire_read_buffer_event(self, o, propagate) ==
    IF get_obj(o) # None
    THEN fire_event(self, name \o "_buffer", propagate)
    ELSE self

\* _append_value_buffer keeping the value only if a dependent element still
\* requires its index
_append_value_buffer_IfRequired(self, o, pe, value, idx, propagate) ==
    IF get_obj(o) = None
    THEN [self |-> self, ret |-> Raise("AttributeError")]
    ELSE LET k == IF idx = None THEN self.r_value_buffer.next_idx ELSE idx.py
             persistent == is_value_required(o, pe, Py(k)) = Return(Bool(TRUE))
             appended == [self EXCEPT !.r_value_buffer =
                             Buffer_append(@, value, idx, persistent)]
         IN [self |-> fire_read_buffer_event(appended, o, propagate),
             ret |-> Return(None)]

\* _append_value_buffer asking the owner for its dependent elements after the
\* append, not before
_append_value_buffer_AppendFirst(self, o, pe, value, idx, propagate) ==
    IF get_obj(o) = None
    THEN [self |-> [self EXCEPT !.r_value_buffer = Buffer_append(@, value, idx, FALSE)],
          ret |-> Raise("AttributeError")]
    ELSE LET persistent == has_pseudo_elements(pe)
             appended == [self EXCEPT !.r_value_buffer =
                             Buffer_append(@, value, idx, persistent)]
         IN [self |-> fire_read_buffer_event(appended, o, propagate),
             ret |-> Return(None)]

\* BufferedAttribute._append_value_buffer: the object it leaves and how it
\* ends.  self.obj.has_pseudo_elements() fails on an owner that is None.
_append_value_buffer(self, o, pe, value, idx, propagate) ==
    IF get_obj(o) = None
    THEN [self |-> self, ret |-> Raise("AttributeError")]
    ELSE LET persistent == has_pseudo_elements(pe)
             appended == [self EXCEPT !.r_value_buffer =
                             Buffer_append(@, value, idx, persistent)]
         IN [self |-> fire_read_buffer_event(appended, o, propagate),
             ret |-> Return(None)]

\* BufferedAttribute._extend_value_buffer
_extend_value_buffer(self, o, pe, values, idx, propagate) ==
    IF Len(values) = 0
    THEN [self |-> self, ret |-> Return(None)]
    ELSE IF get_obj(o) = None
    THEN [self |-> self, ret |-> Raise("AttributeError")]
    ELSE LET persistent == has_pseudo_elements(pe)
             extended == Buffer_extend(self.r_value_buffer, values, idx, persistent)
         IN IF extended.ret.kind = "raise"
            THEN [self |-> [self EXCEPT !.r_value_buffer = extended.buffer],
                  ret |-> extended.ret]
            ELSE [self |-> fire_read_buffer_event(
                               [self EXCEPT !.r_value_buffer = extended.buffer],
                               o, propagate),
                  ret |-> Return(None)]

\* _clear_value_buffer emptying the dict of the Buffer it has (dict.clear())
\* instead of making a new Buffer
_clear_value_buffer_ClearDict(self) == [self EXCEPT !.r_value_buffer.map = << >>]

\* BufferedAttribute._clear_value_buffer
_clear_value_buffer(self) == [self EXCEPT !.r_value_buffer = EmptyBuffer]

----------------------------------------------------------------------------
(* Actions of the scalar slots *)

\* The arguments a caller may pass: a raw payload with or without a timestamp
\* (`now` is the clock SardanaValue reads when there is none), or a
\* SardanaValue, with or without a timestamp beside it
Args(value, timestamp, now) == [value |-> value, timestamp |-> timestamp, now |-> now]

ValueArgs ==
    {Args(v, None, n) : v \in Values, n \in Times}
    \cup {Args(v, t, n) : v \in Values, t \in Times, n \in Times}
    \cup {Args(sv, t, sv.timestamp) : sv \in SardanaValues, t \in {None, Py(1)}}

Payload(value) == IF IsSardanaValue(value) THEN value.value ELSE value

Store(self) ==
    /\ r_value' = self.r_value
    /\ w_value' = self.w_value
    /\ last_event_value' = self.last_event_value
    /\ r_value_buffer' = self.r_value_buffer
    /\ events' = self.events

SetValue(value, timestamp, now, propagate) ==
    /\ Store(set_value(kind, Self, filter, obj, value, timestamp, now, propagate))
    /\ call' = [op |-> "set_value", value |-> Payload(value), propagate |-> propagate]
    /\ ret' = Return(None)
    /\ UNCHANGED <<kind, apart, obj, filter, pseudo_elements>>

SetWriteValue(w, timestamp, now, propagate) ==
    /\ Store(_set_write_value(Self, w, timestamp, now, propagate))
    /\ call' = [op |-> "set_write_value", value |-> Payload(w), propagate |-> propagate]
    /\ ret' = Return(None)
    /\ UNCHANGED <<kind, apart, obj, filter, pseudo_elements>>

GetValue ==
    /\ call' = [op |-> "get_value"]
    /\ ret' = get_value(Self)
    /\ events' = <<>>
    /\ UNCHANGED <<kind, apart, obj, r_value, w_value, last_event_value, filter,
                   r_value_buffer, pseudo_elements>>

GetWriteValue ==
    /\ call' = [op |-> "get_write_value"]
    /\ ret' = get_write_value(Self)
    /\ events' = <<>>
    /\ UNCHANGED <<kind, apart, obj, r_value, w_value, last_event_value, filter,
                   r_value_buffer, pseudo_elements>>

\* attr.filter = f
SetFilter(f) ==
    /\ filter' = f
    /\ call' = [op |-> "filter"]
    /\ ret' = Return(None)
    /\ events' = <<>>
    /\ UNCHANGED <<kind, apart, obj, r_value, w_value, last_event_value,
                   r_value_buffer, pseudo_elements>>

\* the owner is collected: the weak reference resolves to None from now on,
\* and the owner's dependent elements are out of the attribute's reach
OwnerDies ==
    /\ obj = "present"
    /\ obj' = "dead"
    /\ pseudo_elements' = <<>>
    /\ call' = [op |-> "owner_dies"]
    /\ ret' = Return(None)
    /\ events' = <<>>
    /\ UNCHANGED <<kind, apart, r_value, w_value, last_event_value, filter,
                   r_value_buffer>>

\* SardanaAttribute.__init__ / ScalarNumberAttribute.__init__ /
\* BufferedAttribute.__init__ with initial_value=None
Init ==
    /\ kind \in Kinds
    /\ obj \in {"present", "none"}
    /\ r_value = None
    /\ w_value = None
    /\ last_event_value = None
    /\ filter = IF kind = "ScalarNumberAttribute" THEN "ScalarNumberFilter" ELSE "pass"
    /\ r_value_buffer = IF kind = "BufferedAttribute" THEN EmptyBuffer ELSE None
    /\ pseudo_elements = <<>>
    /\ listeners = <<>>
    /\ buffered_attribute_listeners = <<>>
    /\ threads = [writer |-> Idle, reader |-> Idle]
    /\ unrequired = {}
    /\ call = [op |-> "__init__"]
    /\ ret = Return(None)
    /\ events = <<>>

Next ==
    \/ \E a \in ValueArgs, propagate \in Propagates :
           SetValue(a.value, a.timestamp, a.now, propagate)
    \/ GetValue
    \/ \E f \in Filters : SetFilter(f)
    \/ OwnerDies

Spec == Init /\ [][Next]_vars

\* the values the read slot is set to beside the write slot: the smallest and
\* the largest payload, stamped by the clock
SlotValues == {Py(0), Py(MaxVal)}
SlotArgs == {Args(v, None, Py(1)) : v \in SlotValues}

\* the two slots of one attribute, set and read
NextSlots ==
    \/ \E a \in SlotArgs, propagate \in Propagates :
           SetValue(a.value, a.timestamp, a.now, propagate)
    \/ \E a \in ValueArgs, propagate \in Propagates :
           SetWriteValue(a.value, a.timestamp, a.now, propagate)
    \/ GetValue
    \/ GetWriteValue
    \/ \E f \in Filters : SetFilter(f)

SpecSlots == Init /\ [][NextSlots]_vars

----------------------------------------------------------------------------
(* Actions of the buffer *)

Indexes == 0..MaxIdx
IdxArgs == {None} \cup {Py(k) : k \in Indexes}

\* the objects put in the buffer: two SardanaValue of different payloads
BufferValues == {SardanaValue(Py(0), Py(1), None), SardanaValue(Py(1), Py(1), None)}

\* the sequences extend() is called with, the empty one included
BufferSeqs == UNION {[1..n -> BufferValues] : n \in 0..MaxLen}

\* the sequences extend_value_buffer() is called with: the empty one, and
\* those whose consecutive values differ
ValueSeqs ==
    {objs \in BufferSeqs : \A i \in 1..(Len(objs) - 1) : objs[i] # objs[i + 1]}

\* the propagate levels the buffer methods are called with
BufferPropagates == {0, 1}

\* the index a write of n values ends at; writes stay within 0..MaxIdx
FirstIdx(idx) == IF idx = None THEN r_value_buffer.next_idx ELSE idx.py
InRange(idx, n) == FirstIdx(idx) + n - 1 <= MaxIdx

\* attr.value_buffer.append(o, idx, persistent)
BufferAppend(o, idx, persistent) ==
    /\ InRange(idx, 1)
    /\ call' = [op |-> "Buffer.append", obj |-> o, idx |-> idx,
                persistent |-> persistent]
    /\ r_value_buffer' = Buffer_append(r_value_buffer, o, idx, persistent)
    /\ ret' = Return(None)
    /\ events' = <<>>
    /\ UNCHANGED <<kind, apart, obj, r_value, w_value, last_event_value, filter,
                   pseudo_elements>>

\* attr.value_buffer.extend(objs, initial_idx, persistent)
BufferExtend(objs, initial_idx, persistent) ==
    LET done == Buffer_extend(r_value_buffer, objs, initial_idx, persistent)
    IN /\ InRange(initial_idx, Len(objs))
       /\ call' = [op |-> "Buffer.extend", objs |-> objs, idx |-> initial_idx,
                   persistent |-> persistent]
       /\ r_value_buffer' = done.buffer
       /\ ret' = done.ret
       /\ events' = <<>>
       /\ UNCHANGED <<kind, apart, obj, r_value, w_value, last_event_value, filter,
                      pseudo_elements>>

AppendValueBuffer(value, idx, propagate) ==
    LET done == _append_value_buffer(Self, obj, pseudo_elements, value, idx, propagate)
    IN /\ InRange(idx, 1)
       /\ Store(done.self)
       /\ ret' = done.ret
       /\ call' = [op |-> "append_value_buffer", value |-> value,
                   propagate |-> propagate]
       /\ UNCHANGED <<kind, apart, obj, filter, pseudo_elements>>

ExtendValueBuffer(values, idx, propagate) ==
    LET done == _extend_value_buffer(Self, obj, pseudo_elements, values, idx, propagate)
    IN /\ InRange(idx, Len(values))
       /\ Store(done.self)
       /\ ret' = done.ret
       /\ call' = [op |-> "extend_value_buffer", len |-> Len(values),
                   propagate |-> propagate]
       /\ UNCHANGED <<kind, apart, obj, filter, pseudo_elements>>

GetValueIdx(idx) ==
    /\ call' = [op |-> "get_value", idx |-> idx]
    /\ ret' = Buffered_get_value(Self, idx)
    /\ events' = <<>>
    /\ UNCHANGED <<kind, apart, obj, r_value, w_value, last_event_value, filter,
                   r_value_buffer, pseudo_elements>>

RemoveValue(idx) ==
    /\ Store(remove_value(Self, idx))
    /\ call' = [op |-> "remove_value", idx |-> idx]
    /\ ret' = Return(None)
    /\ UNCHANGED <<kind, apart, obj, filter, pseudo_elements>>

ClearValueBuffer ==
    /\ Store(_clear_value_buffer(Self))
    /\ call' = [op |-> "clear_value_buffer"]
    /\ ret' = Return(None)
    /\ UNCHANGED <<kind, apart, obj, filter, pseudo_elements>>

\* the owner gains a dependent element, whose value attribute is new
AddPseudoElement ==
    /\ obj = "present"
    /\ Len(pseudo_elements) < MaxPseudo
    /\ pseudo_elements' = Append(pseudo_elements, [next_idx |-> 0])
    /\ call' = [op |-> "add_pseudo_element"]
    /\ ret' = Return(None)
    /\ events' = <<>>
    /\ UNCHANGED <<kind, apart, obj, r_value, w_value, last_event_value, filter,
                   r_value_buffer>>

\* the owner loses its last dependent element
RemovePseudoElement ==
    /\ obj = "present"
    /\ Len(pseudo_elements) > 0
    /\ pseudo_elements' = SubSeq(pseudo_elements, 1, Len(pseudo_elements) - 1)
    /\ call' = [op |-> "remove_pseudo_element"]
    /\ ret' = Return(None)
    /\ events' = <<>>
    /\ UNCHANGED <<kind, apart, obj, r_value, w_value, last_event_value, filter,
                   r_value_buffer>>

\* a dependent element's value attribute takes one more value
AdvancePseudoElement(i) ==
    /\ obj = "present"
    /\ i \in DOMAIN pseudo_elements
    /\ pseudo_elements[i].next_idx <= MaxIdx
    /\ pseudo_elements' = [pseudo_elements EXCEPT ![i].next_idx = @ + 1]
    /\ call' = [op |-> "advance_pseudo_element"]
    /\ ret' = Return(None)
    /\ events' = <<>>
    /\ UNCHANGED <<kind, apart, obj, r_value, w_value, last_event_value, filter,
                   r_value_buffer>>

IsValueRequired(idx) ==
    /\ call' = [op |-> "is_value_required", idx |-> idx]
    /\ ret' = is_value_required(obj, pseudo_elements, idx)
    /\ events' = <<>>
    /\ UNCHANGED <<kind, apart, obj, r_value, w_value, last_event_value, filter,
                   r_value_buffer, pseudo_elements>>

\* BufferedAttribute.__init__: the attribute with its empty Buffer
InitBuffered ==
    /\ Init
    /\ kind = "BufferedAttribute"

\* the Buffer object alone, written to directly
NextBuffer ==
    \/ \E o \in BufferValues, idx \in IdxArgs, persistent \in BOOLEAN :
           BufferAppend(o, idx, persistent)
    \/ \E objs \in BufferSeqs, idx \in IdxArgs, persistent \in BOOLEAN :
           BufferExtend(objs, idx, persistent)

SpecBuffer == InitBuffered /\ [][NextBuffer]_vars

\* the BufferedAttribute and its owner
NextBuffered ==
    \/ \E value \in BufferValues, idx \in IdxArgs, propagate \in BufferPropagates :
           AppendValueBuffer(value, idx, propagate)
    \/ \E values \in ValueSeqs, idx \in IdxArgs, propagate \in BufferPropagates :
           ExtendValueBuffer(values, idx, propagate)
    \/ \E idx \in IdxArgs : GetValueIdx(idx)
    \/ \E k \in Indexes : RemoveValue(Py(k))
    \/ ClearValueBuffer
    \/ AddPseudoElement
    \/ RemovePseudoElement
    \/ OwnerDies

SpecBuffered == InitBuffered /\ [][NextBuffered]_vars

\* the BufferedAttribute with its slots set, its buffer written to and cleared
NextClear ==
    \/ \E a \in SlotArgs, propagate \in BufferPropagates :
           SetValue(a.value, a.timestamp, a.now, propagate)
    \/ \E a \in SlotArgs, propagate \in BufferPropagates :
           SetWriteValue(a.value, a.timestamp, a.now, propagate)
    \/ \E value \in BufferValues, idx \in IdxArgs, propagate \in BufferPropagates :
           AppendValueBuffer(value, idx, propagate)
    \/ ClearValueBuffer
    \/ AddPseudoElement

SpecClear == InitBuffered /\ [][NextClear]_vars

\* the BufferedAttribute written to in order (idx=None) while the owner's
\* dependent elements come, take values and go
NextDependents ==
    \/ \E value \in BufferValues, propagate \in BufferPropagates :
           AppendValueBuffer(value, None, propagate)
    \/ \E values \in ValueSeqs, propagate \in BufferPropagates :
           ExtendValueBuffer(values, None, propagate)
    \/ \E k \in Indexes : IsValueRequired(Py(k))
    \/ AddPseudoElement
    \/ RemovePseudoElement
    \/ \E i \in 1..MaxPseudo : AdvancePseudoElement(i)

SpecDependents == InitBuffered /\ [][NextDependents]_vars

\* the indexes of a chunk
ChunkKeys(chunk) ==
    IF chunk = None THEN {} ELSE {chunk.items[i][1] : i \in DOMAIN chunk.items}

\* append_value_buffer, with a note of the index it wrote if the owner had no
\* dependent element
NoteAppendValueBuffer(value, idx, propagate) ==
    LET done == _append_value_buffer(Self, obj, pseudo_elements, value, idx, propagate)
    IN /\ InRange(idx, 1)
       /\ Store(done.self)
       /\ ret' = done.ret
       /\ call' = [op |-> "append_value_buffer", value |-> value,
                   propagate |-> propagate]
       /\ unrequired' =
             IF done.ret.kind = "return" /\ ~has_pseudo_elements(pseudo_elements)
             THEN unrequired \cup ChunkKeys(done.self.r_value_buffer.last_chunk)
             ELSE unrequired
       /\ UNCHANGED <<kind, obj, filter, pseudo_elements, listeners,
                      buffered_attribute_listeners, threads>>

\* the BufferedAttribute written to and read by index while the owner's
\* dependent elements come and go
NextUnrequired ==
    \/ \E value \in BufferValues, idx \in IdxArgs, propagate \in BufferPropagates :
           NoteAppendValueBuffer(value, idx, propagate)
    \/ \E idx \in IdxArgs : GetValueIdx(idx)
    \/ AddPseudoElement
    \/ RemovePseudoElement

SpecUnrequired == InitBuffered /\ [][NextUnrequired]_vars

\* the BufferedAttribute written to before and after its owner goes away
NextOwnerless ==
    \/ \E value \in BufferValues, idx \in IdxArgs, propagate \in BufferPropagates :
           AppendValueBuffer(value, idx, propagate)
    \/ \E values \in ValueSeqs, propagate \in BufferPropagates :
           ExtendValueBuffer(values, None, propagate)
    \/ AddPseudoElement
    \/ OwnerDies

SpecOwnerless == InitBuffered /\ [][NextOwnerless]_vars

----------------------------------------------------------------------------
(* Listeners.  EventGenerator keeps the registry of listeners; a            *)
(* BufferedAttribute keeps beside it the list of its listeners that are     *)
(* BufferedAttributes.                                                      *)

\* the listeners that come and go: two attributes of other elements and a
\* callable that is no BufferedAttribute
Listeners ==
    {[isinstance |-> "BufferedAttribute", name |-> "a"],
     [isinstance |-> "BufferedAttribute", name |-> "b"],
     [isinstance |-> "function", name |-> "f"]}

Range(seq) == {seq[i] : i \in DOMAIN seq}

\* list.remove(x): the list without the first item equal to x
ListRemove(seq, x) ==
    LET i == CHOOSE i \in DOMAIN seq : seq[i] = x /\ \A j \in 1..(i - 1) : seq[j] # x
    IN SubSeq(seq, 1, i - 1) \o SubSeq(seq, i + 1, Len(seq))

\* EventGenerator.add_listener: registers a listener that is not registered
\* and tells whether it did
EventGenerator_add_listener(ls, listener) ==
    IF listener \in Range(ls)
    THEN [listeners |-> ls, ret |-> FALSE]
    ELSE [listeners |-> Append(ls, listener), ret |-> TRUE]

\* EventGenerator.remove_listener: unregisters a registered listener and
\* tells whether it did
EventGenerator_remove_listener(ls, listener) ==
    IF listener \in Range(ls)
    THEN [listeners |-> ListRemove(ls, listener), ret |-> TRUE]
    ELSE [listeners |-> ls, ret |-> FALSE]

\* isinstance(listener, BufferedAttribute) or
\* (hasattr(listener, "im_self") and isinstance(listener.im_self, BufferedAttribute))
IsBufferedAttributeListener(listener) ==
    listener.isinstance = "BufferedAttribute"

add_listener_Untested(ls, bls, listener) ==
    LET added == EventGenerator_add_listener(ls, listener)
    IN [listeners |-> added.listeners,
        buffered_attribute_listeners |->
            IF IsBufferedAttributeListener(listener) THEN Append(bls, listener) ELSE bls,
        ret |-> Return(None)]

\* BufferedAttribute.add_listener
add_listener(ls, bls, listener) ==
    LET added == EventGenerator_add_listener(ls, listener)
    IN IF ~added.ret
       THEN [listeners |-> added.listeners, buffered_attribute_listeners |-> bls,
             ret |-> Return(None)]
       ELSE [listeners |-> added.listeners,
             buffered_attribute_listeners |->
                 IF IsBufferedAttributeListener(listener)
                 THEN Append(bls, listener) ELSE bls,
             ret |-> Return(None)]

\* BufferedAttribute.remove_listener; list.remove raises ValueError for an
\* item that is not in the list
remove_listener(ls, bls, listener) ==
    LET removed == EventGenerator_remove_listener(ls, listener)
    IN IF ~removed.ret
       THEN [listeners |-> removed.listeners, buffered_attribute_listeners |-> bls,
             ret |-> Return(None)]
       ELSE IF ~IsBufferedAttributeListener(listener)
       THEN [listeners |-> removed.listeners, buffered_attribute_listeners |-> bls,
             ret |-> Return(None)]
       ELSE IF listener \in Range(bls)
       THEN [listeners |-> removed.listeners,
             buffered_attribute_listeners |-> ListRemove(bls, listener),
             ret |-> Return(None)]
       ELSE [listeners |-> removed.listeners, buffered_attribute_listeners |-> bls,
             ret |-> Raise("ValueError")]

ListenerCall(op, listener, result) ==
    /\ listeners' = result.listeners
    /\ buffered_attribute_listeners' = result.buffered_attribute_listeners
    /\ call' = [op |-> op, listener |-> listener]
    /\ ret' = result.ret
    /\ events' = <<>>
    /\ UNCHANGED <<kind, obj, r_value, w_value, last_event_value, filter,
                   r_value_buffer, pseudo_elements, threads, unrequired>>

AddListener(listener) ==
    ListenerCall("add_listener", listener,
                 add_listener(listeners, buffered_attribute_listeners, listener))

RemoveListener(listener) ==
    ListenerCall("remove_listener", listener,
                 remove_listener(listeners, buffered_attribute_listeners, listener))

\* the BufferedAttribute gaining and losing listeners while it is written to
NextListeners ==
    \/ \E listener \in Listeners : AddListener(listener)
    \/ \E listener \in Listeners : RemoveListener(listener)
    \/ \E value \in BufferValues, propagate \in BufferPropagates :
           AppendValueBuffer(value, None, propagate)

SpecListeners == InitBuffered /\ [][NextListeners]_vars

\* everything that is done to a BufferedAttribute in use: its slots set, its
\* buffer written to, pruned and cleared, listeners and dependent elements
\* coming and going
NextPersisted ==
    \/ SetValue(Py(0), None, Py(1), 0)
    \/ SetWriteValue(Py(0), None, Py(1), 0)
    \/ \E value \in BufferValues, idx \in IdxArgs :
           AppendValueBuffer(value, idx, 0)
    \/ \E values \in {objs \in ValueSeqs : Len(objs) = 2} :
           ExtendValueBuffer(values, None, 0)
    \/ \E k \in Indexes : RemoveValue(Py(k))
    \/ ClearValueBuffer
    \/ \E listener \in {l \in Listeners : l.name = "a"} : AddListener(listener)
    \/ \E listener \in {l \in Listeners : l.name = "a"} : RemoveListener(listener)
    \/ AddPseudoElement
    \/ RemovePseudoElement

SpecPersisted == InitBuffered /\ [][NextPersisted]_vars

----------------------------------------------------------------------------
(* Threads.  The module takes no lock: a call of one thread runs statement  *)
(* by statement and another thread's statements may come in between.  The   *)
(* writer thread is in append_value_buffer or extend_value_buffer, the      *)
(* reader thread in get_value(idx).  A frame holds the position, the        *)
(* arguments and locals, and, for the properties, the buffer as the call    *)
(* found it.                                                                *)

Writer == threads.writer
Reader == threads.reader

\* the writer moves to position pc with its frame changed as given
WriterAt(frame) == threads' = [threads EXCEPT !.writer = frame]

\* a step of the writer inside Buffer.append / Buffer.extend: it changes the
\* buffer and nothing else of the attribute
BufferStep(pc, buffer, frame) ==
    /\ Writer.pc = pc
    /\ r_value_buffer' = buffer
    /\ WriterAt(frame)
    /\ UNCHANGED <<kind, obj, r_value, w_value, last_event_value, filter,
                   pseudo_elements, listeners, buffered_attribute_listeners, unrequired,
                   call, ret, events>>

\* the frame of a call of Buffer.append (objs is the one object) or
\* Buffer.extend as it is entered: `objs` is what is left to write, `idx` the
\* local of that name, `enumerate` the counter of the loop; `called` keeps the
\* arguments and the buffer of the moment of the call
Frame(op, objs, idx, propagate) ==
    [pc |-> "initial_idx", op |-> op, objs |-> objs, idx |-> idx, enumerate |-> 0,
     persistent |-> has_pseudo_elements(pseudo_elements), propagate |-> propagate,
     called |-> [objs |-> objs, idx |-> idx, buffer |-> r_value_buffer]]

\* _append_value_buffer, line 581: persistent = self.obj.has_pseudo_elements(),
\* then the call of Buffer.append
AppendCall(value, idx, propagate) ==
    /\ Writer = Idle
    /\ InRange(idx, 1)
    /\ call' = [op |-> "append_value_buffer", value |-> value,
                propagate |-> propagate]
    /\ events' = <<>>
    /\ IF get_obj(obj) = None
       THEN ret' = Raise("AttributeError") /\ UNCHANGED threads
       ELSE /\ ret' = [kind |-> "running"]
            /\ WriterAt(Frame("append", <<value>>, idx, propagate))
    /\ UNCHANGED <<kind, obj, r_value, w_value, last_event_value, filter,
                   r_value_buffer, pseudo_elements, listeners,
                   buffered_attribute_listeners, unrequired>>

\* _extend_value_buffer, lines 602-604, then the call of Buffer.extend
ExtendCall(values, idx, propagate) ==
    /\ Writer = Idle
    /\ InRange(idx, Len(values))
    /\ call' = [op |-> "extend_value_buffer", len |-> Len(values),
                propagate |-> propagate]
    /\ events' = <<>>
    /\ IF Len(values) = 0
       THEN ret' = Return(None) /\ UNCHANGED threads
       ELSE IF get_obj(obj) = None
       THEN ret' = Raise("AttributeError") /\ UNCHANGED threads
       ELSE /\ ret' = [kind |-> "running"]
            /\ WriterAt(Frame("extend", values, idx, propagate))
    /\ UNCHANGED <<kind, obj, r_value, w_value, last_event_value, filter,
                   r_value_buffer, pseudo_elements, listeners,
                   buffered_attribute_listeners, unrequired>>

\* if idx is None: idx = self._next_idx.  In extend this is initial_idx, from
\* which enumerate() counts.
InitialIdx ==
    LET first == IF Writer.idx = None THEN r_value_buffer.next_idx
                 ELSE Writer.idx.py
    IN BufferStep("initial_idx", r_value_buffer,
                  [Writer EXCEPT !.pc = "last_chunk", !.idx = Py(first),
                                 !.enumerate = first])

\* self._last_chunk = OrderedDict()
NewLastChunk ==
    BufferStep("last_chunk",
               [r_value_buffer EXCEPT !.last_chunk = OrderedDict(<<>>)],
               [Writer EXCEPT !.pc = IF Writer.op = "append" THEN "chunk_item"
                                     ELSE "for"])

\* for idx, obj in enumerate(objs, initial_idx): the next pair, or the end of
\* the loop, which leaves idx at the last index
For ==
    BufferStep("for", r_value_buffer,
               IF Writer.objs = <<>>
               THEN [Writer EXCEPT !.pc = "next_idx"]
               ELSE [Writer EXCEPT !.pc = "chunk_item",
                                   !.idx = Py(Writer.enumerate),
                                   !.enumerate = @ + 1])

\* self._last_chunk[idx] = obj
ChunkItem ==
    BufferStep("chunk_item",
               [r_value_buffer EXCEPT
                   !.last_chunk = PutOrdered(@, Writer.idx.py, Head(Writer.objs))],
               [Writer EXCEPT !.pc = "persistent"])

\* if persistent: self[idx] = obj; in extend the loop goes on
Persistent ==
    BufferStep("persistent",
               IF Writer.persistent
               THEN [r_value_buffer EXCEPT
                        !.map = Put(@, Writer.idx.py, Head(Writer.objs))]
               ELSE r_value_buffer,
               IF Writer.op = "append"
               THEN [Writer EXCEPT !.pc = "next_idx"]
               ELSE [Writer EXCEPT !.pc = "for", !.objs = Tail(@)])

\* self._next_idx = idx + 1
SetNextIdx ==
    BufferStep("next_idx",
               [r_value_buffer EXCEPT !.next_idx = Writer.idx.py + 1],
               [Writer EXCEPT !.pc = "fire"])

\* self.fire_read_buffer_event(propagate), and the call returns
FireReadBufferEvent ==
    /\ Writer.pc = "fire"
    /\ Store(fire_read_buffer_event(Self, obj, Writer.propagate))
    /\ ret' = Return(None)
    /\ WriterAt(Idle)
    /\ UNCHANGED <<kind, obj, filter, pseudo_elements, listeners,
                   buffered_attribute_listeners, unrequired, call>>

\* get_value(idx), lines 542-544: value_obj = self._r_value_buffer[idx]; the
\* call returns its value, or KeyError takes it to the except clause
GetValueTry(idx) ==
    /\ Reader.pc # "except"
    /\ threads' = [threads EXCEPT !.reader =
          IF idx.py \in DOMAIN r_value_buffer.map
          THEN [pc |-> "returned", idx |-> idx,
                ret |-> Return(r_value_buffer.map[idx.py].value)]
          ELSE [pc |-> "except", idx |-> idx]]
    /\ UNCHANGED <<kind, obj, r_value, w_value, last_event_value, filter,
                   r_value_buffer, pseudo_elements, listeners,
                   buffered_attribute_listeners, unrequired, call, ret, events>>

\* get_value(idx), lines 545-550: if self.next_idx > idx: raise
\* LateValueException, else: raise EarlyValueException
GetValueExcept ==
    /\ Reader.pc = "except"
    /\ threads' = [threads EXCEPT !.reader =
          [pc |-> "returned", idx |-> Reader.idx,
           ret |-> IF r_value_buffer.next_idx > Reader.idx.py
                   THEN Raise("LateValueException")
                   ELSE Raise("EarlyValueException")]]
    /\ UNCHANGED <<kind, obj, r_value, w_value, last_event_value, filter,
                   r_value_buffer, pseudo_elements, listeners,
                   buffered_attribute_listeners, unrequired, call, ret, events>>

\* one thread writing to the buffer, one reading it by index, the owner with
\* or without a dependent element
NextThreads ==
    \/ \E value \in BufferValues, idx \in IdxArgs : AppendCall(value, idx, 1)
    \/ \E values \in ValueSeqs : ExtendCall(values, None, 1)
    \/ InitialIdx
    \/ NewLastChunk
    \/ For
    \/ ChunkItem
    \/ Persistent
    \/ SetNextIdx
    \/ FireReadBufferEvent
    \/ \E k \in Indexes : GetValueTry(Py(k))
    \/ GetValueExcept
    \/ AddPseudoElement

SpecThreads == InitBuffered /\ [][NextThreads]_vars

----------------------------------------------------------------------------
(* Properties of set_value and the read event *)

\* the call just made is set_value
SetValueCalled == call.op = "set_value"

HasReadEvent(es) == \E i \in DOMAIN es : es[i].type = name

\* the change filter applied to a new payload and the last published one
FilterAccepts(v) == ApplyFilter(filter, v, last_event_value.value)

\* C1: with the owner present, set_value(v, propagate=p) publishes a read
\* event if and only if p >= 1 and (nothing was published before, or p > 1,
\* or filter(v, last_emitted.value)).
C1_PublishIffAccepted ==
    [][(SetValueCalled' /\ obj = "present") =>
         (HasReadEvent(events') <=>
            /\ call'.propagate >= 1
            /\ \/ last_event_value = None
               \/ call'.propagate > 1
               \/ FilterAccepts(call'.value))]_vars

\* C2 as claimed: the first set_value, made with propagate=1, publishes a
\* read event whatever the filter; a later one whose value the filter rejects
\* publishes none and still replaces the read slot.
C2_FirstAlwaysPublishes ==
    [][(SetValueCalled' /\ call'.propagate = 1) =>
         /\ r_value = None => HasReadEvent(events')
         /\ (r_value # None /\ last_event_value # None
                /\ ~FilterAccepts(call'.value)) =>
              (~HasReadEvent(events') /\ r_value'.value = call'.value)]_vars

\* C2 as amended: the same, the first call publishing only when the owner is
\* present.
C2_FirstPublishesWithOwner ==
    [][(SetValueCalled' /\ call'.propagate = 1) =>
         /\ (r_value = None /\ obj = "present") => HasReadEvent(events')
         /\ (r_value # None /\ last_event_value # None
                /\ ~FilterAccepts(call'.value)) =>
              (~HasReadEvent(events') /\ r_value'.value = call'.value)]_vars

\* C2 witness: a later set_value with propagate=1 was rejected by the filter
\* after a first one was published: the slot holds a value that was not
\* announced.
C2_Witness ==
    /\ SetValueCalled /\ call.propagate = 1 /\ obj = "present"
    /\ events = <<>>
    /\ last_event_value # None /\ r_value # last_event_value

\* C27: with the owner absent (None from the start, or dead), set_value with
\* any propagate stores the new value in the read slot, publishes no read
\* event and leaves the last published value as it was; the last published
\* value of an attribute that never had an owner stays empty.
C27_AbsentOwnerSilent ==
    /\ [][(SetValueCalled' /\ get_obj(obj) = None) =>
             /\ has_value(Self)' /\ r_value'.value = call'.value
             /\ ~HasReadEvent(events')
             /\ last_event_value' = last_event_value]_vars
    /\ [](obj = "none" => last_event_value = None)

\* C27 witness: the owner died after a value was published; set_value with
\* propagate=2 then stored another value and published no read event.
C27_Witness ==
    /\ SetValueCalled /\ obj = "dead" /\ call.propagate = 2
    /\ r_value.value = call.value
    /\ ~HasReadEvent(events)
    /\ last_event_value # None /\ last_event_value.value # call.value

\* C3: for every kind of attribute, set_value(v, propagate=0) publishes no
\* event of any type and stores v in the read slot.
C3_PropagateZeroSilent ==
    (SetValueCalled /\ call.propagate = 0) =>
        (events = <<>> /\ has_value(Self) /\ r_value.value = call.value)

\* C4: right after set_value(v), whatever the propagate level, has_value()
\* is true and get_value() returns v.
C4_ValueStored ==
    SetValueCalled => (has_value(Self) /\ get_value(Self) = Return(call.value))

\* C4 witness: a set_value that published nothing, with an earlier value
\* published, left its value in the read slot.
C4_Witness ==
    /\ SetValueCalled /\ events = <<>>
    /\ last_event_value # None /\ r_value.value # last_event_value.value

\* C5: every read event is published with the mutation committed: the listener
\* finds the snapshot just set in the read slot, and the same snapshot as the
\* last emitted one.
C5_EventAfterCommit ==
    SetValueCalled =>
        \A i \in DOMAIN events :
            events[i].type = name =>
                /\ events[i].r_value = r_value
                /\ events[i].r_value.value = call.value
                /\ events[i].last_event_value = events[i].r_value

\* C5 witness: a priority set_value published a read event past a rejecting
\* filter.
C5_Witness ==
    /\ SetValueCalled /\ call.propagate = 2 /\ filter = "reject"
    /\ HasReadEvent(events)

\* a set_value(v, propagate=1) under the numeric tolerance filter, on an
\* attribute that has published a value before
ToleranceCase ==
    /\ SetValueCalled' /\ call'.propagate = 1
    /\ filter = "ScalarNumberFilter"
    /\ last_event_value # None

\* v is further than the tolerance from the value published last
BeyondTolerance(v) == Abs(v.py - last_event_value.value.py) > Tolerance

\* what C18 says of one such call
ToleranceRule ==
    /\ HasReadEvent(events') <=> BeyondTolerance(call'.value)
    /\ HasReadEvent(events') => last_event_value'.value = call'.value
    /\ ~HasReadEvent(events') => last_event_value' = last_event_value

\* C18 as claimed: under the numeric tolerance filter, a set_value(v,
\* propagate=1) made after a value was published publishes a read event if and
\* only if v is further than the tolerance from the value published last,
\* whatever the read slot held; a call that publishes nothing leaves that
\* baseline where it was.
C18_ToleranceAgainstEmitted == [][ToleranceCase => ToleranceRule]_vars

\* C18 as amended: the same, for an attribute whose owner is present.
C18_ToleranceWithOwner ==
    [][(ToleranceCase /\ obj = "present") => ToleranceRule]_vars

\* C18 witness: a set_value with propagate=1 published nothing under the
\* numeric filter: the read slot holds the new value, which is not the one
\* published last but within the tolerance of it, and the baseline is still
\* that one.
C18_Witness ==
    /\ SetValueCalled /\ call.propagate = 1 /\ obj = "present"
    /\ filter = "ScalarNumberFilter"
    /\ events = <<>>
    /\ last_event_value # None
    /\ r_value.value = call.value
    /\ r_value.value # last_event_value.value
    /\ ~BeyondTolerance(r_value.value)

\* C21: after every set_value(v) on a SardanaSoftwareAttribute the write
\* value is the read value: has_write_value() is true, get_write_value() and
\* get_value() both return v, and get_write_timestamp() is get_timestamp().
C21_SoftwareMirrors ==
    (SetValueCalled /\ kind = "SardanaSoftwareAttribute") =>
        /\ has_write_value(Self)
        /\ get_value(Self) = Return(call.value)
        /\ get_write_value(Self) = get_value(Self)
        /\ get_write_timestamp(Self) = get_timestamp(Self)

\* C21 witness: a software attribute was set, with propagate=0, to a value
\* read at the latest time: both slots hold it with that timestamp.
C21_Witness ==
    /\ SetValueCalled /\ kind = "SardanaSoftwareAttribute"
    /\ call.propagate = 0
    /\ has_write_value(Self)
    /\ r_value.timestamp = Py(MaxTime) /\ w_value.timestamp = Py(MaxTime)

----------------------------------------------------------------------------
(* Properties of the write slot *)

\* what C19 says set_write_value always does to the slots
WriteStored ==
    /\ ret' = Return(None)
    /\ has_write_value(Self)'
    /\ w_value'.value = call'.value
    /\ UNCHANGED <<r_value, last_event_value>>

\* the call published one event, a write event that shows the value written
OneWriteEvent ==
    /\ Len(events) = 1
    /\ events[1].type = "w_" \o name
    /\ events[1].w_value = w_value

\* C19 as claimed: set_write_value stores the value in the write slot and
\* then always publishes one write event "w_" + name, whatever the filter and
\* the value published last; the read slot and the value published last stay
\* as they were.
C19_WriteAlwaysPublishes ==
    [][call'.op = "set_write_value" => (WriteStored /\ OneWriteEvent')]_vars

\* C19 as amended: it publishes the write event if and only if propagate >= 1;
\* with propagate=0 it stores the value and publishes nothing.
C19_WritePublishesIfPropagate ==
    [][call'.op = "set_write_value" =>
          /\ WriteStored
          /\ call'.propagate >= 1 => OneWriteEvent'
          /\ call'.propagate = 0 => events' = <<>>]_vars

\* C19 witness: a write event was published for a value equal to the one
\* published last as a read event, with a filter set that rejects everything.
C19_Witness ==
    /\ call.op = "set_write_value" /\ call.propagate = 1
    /\ filter = "reject"
    /\ last_event_value # None
    /\ w_value.value = last_event_value.value
    /\ OneWriteEvent

\* C20 as claimed: reading a slot that was never set always fails:
\* get_value() raises on an empty read slot and get_write_value() raises on
\* an empty write slot.
C20_EmptySlotFails ==
    /\ (call.op = "get_value" /\ ~has_value(Self)) => ret.kind = "raise"
    /\ (call.op = "get_write_value" /\ ~has_write_value(Self)) => ret.kind = "raise"

\* C20 as amended: get_value() on an empty read slot raises (Exception, or
\* AttributeError on an attribute without owner); get_write_value() on an
\* empty write slot raises nothing and returns None.
C20_EmptyReadFailsWriteNone ==
    /\ (call.op = "get_value" /\ ~has_value(Self)) =>
          ret = IF obj = "present" THEN Raise("Exception")
                ELSE Raise("AttributeError")
    /\ (call.op = "get_write_value" /\ ~has_write_value(Self)) =>
          ret = Return(None)

\* C20 witness: get_write_value() returned None on an attribute whose read
\* slot is set and whose write slot never was.
C20_Witness ==
    /\ call.op = "get_write_value"
    /\ has_value(Self) /\ ~has_write_value(Self)
    /\ ret = Return(None)

----------------------------------------------------------------------------
(* Properties of the buffer *)

Map == r_value_buffer.map
NextIdx == r_value_buffer.next_idx
LastChunk == r_value_buffer.last_chunk

\* C6: get_value(idx) for an index that is not in the buffer raises
\* LateValueException exactly when next_idx > idx and EarlyValueException
\* exactly when next_idx <= idx; for an index in the buffer it returns the
\* payload stored there.
C6_LateEarlyMiss ==
    (call.op = "get_value" /\ call.idx # None) =>
        LET i == call.idx.py
        IN /\ (ret = Raise("LateValueException")) <=> (i \notin DOMAIN Map /\ NextIdx > i)
           /\ (ret = Raise("EarlyValueException")) <=> (i \notin DOMAIN Map /\ NextIdx <= i)
           /\ (i \in DOMAIN Map) => (ret = Return(Map[i].value))

\* C6 witness: a late miss below an index that is still in the buffer.
C6_Witness ==
    /\ call.op = "get_value" /\ call.idx # None
    /\ ret = Raise("LateValueException")
    /\ \E j \in DOMAIN Map : j > call.idx.py

\* what C7 says of one append: index k is idx, or the old next_idx without one
AppendPost(o, idx, persistent) ==
    LET k == IF idx = None THEN NextIdx ELSE idx.py
    IN /\ NextIdx' = k + 1
       /\ LastChunk' = OrderedDict(<< <<k, o>> >>)
       /\ persistent =>
            /\ DOMAIN Map' = (DOMAIN Map) \cup {k}
            /\ Map'[k] = o
            /\ \A i \in (DOMAIN Map) \ {k} : Map'[i] = Map[i]
       /\ ~persistent => Map' = Map

\* C7: after Buffer.append(v, idx=k, persistent=b), next_idx is k+1 and
\* last_chunk is exactly {k: v}; the map gains k -> v if b and is unchanged
\* otherwise; without idx, k is the previous next_idx.
C7_AppendSetsNextAndChunk ==
    [][call'.op = "Buffer.append" =>
          AppendPost(call'.obj, call'.idx, call'.persistent)]_vars

\* C7 witness: a non-persistent append below entries the buffer keeps: the
\* counter went back to follow the index and the map did not gain it.
C7_Witness ==
    /\ call.op = "Buffer.append" /\ ~call.persistent
    /\ \E k \in ChunkKeys(LastChunk) :
          /\ k \notin DOMAIN Map
          /\ \E j \in DOMAIN Map : j > k

\* what C8 says of one extend with n >= 1 values from index i
ExtendPost(objs, initial_idx, persistent) ==
    LET i == IF initial_idx = None THEN NextIdx ELSE initial_idx.py
        n == Len(objs)
    IN /\ NextIdx' = i + n
       /\ LastChunk' = OrderedDict([j \in 1..n |-> <<i + j - 1, objs[j]>>])
       /\ persistent => \A j \in 1..n : /\ (i + j - 1) \in DOMAIN Map'
                                         /\ Map'[i + j - 1] = objs[j]

\* C8: Buffer.extend(values, initial_idx=i) with n >= 1 values gives them the
\* indexes i .. i+n-1 in order, sets next_idx to i+n, and leaves exactly those
\* n pairs in last_chunk, nothing of an earlier call.
C8_ExtendConsecutive ==
    [][(call'.op = "Buffer.extend" /\ Len(call'.objs) >= 1) =>
          ExtendPost(call'.objs, call'.idx, call'.persistent)]_vars

\* C8 witness: an extend with two values after an earlier write that the map
\* still holds outside the new chunk.
C8_Witness ==
    /\ call.op = "Buffer.extend" /\ Len(call.objs) = 2
    /\ Cardinality(ChunkKeys(LastChunk)) = 2
    /\ \E j \in DOMAIN Map : j \notin ChunkKeys(LastChunk)

\* The half of C9 about BufferedAttribute.extend_value_buffer([]), under
\* SpecBuffered: it returns at once, changes nothing and publishes nothing.
EmptyExtendValueBufferNoOp ==
    [][\A idx \in IdxArgs, propagate \in BufferPropagates :
          ExtendValueBuffer(<<>>, idx, propagate) =>
              /\ ret' = Return(None)
              /\ r_value_buffer' = r_value_buffer
              /\ events' = <<>>]_vars

\* C9: extending with an empty sequence completes and leaves next_idx, the map
\* and last_chunk as they were; stated here of Buffer.extend([]).
C9_EmptyExtendNoOp ==
    [][(call'.op = "Buffer.extend" /\ call'.objs = <<>>) =>
          (ret' = Return(None) /\ r_value_buffer' = r_value_buffer)]_vars

\* the indexes a call wrote: all of its chunk when it returned
Written == IF ret.kind = "return" THEN ChunkKeys(LastChunk) ELSE {}

\* C10: at every append/extend call, with automatic or explicit indexes,
\* next_idx grows by at least the number of values written (at least one) and
\* no index that was assigned before is assigned again.
C10_NextIdxGrows ==
    [][(call'.op \in {"Buffer.append", "Buffer.extend"} /\ ret'.kind = "return") =>
          /\ NextIdx' >= NextIdx + Cardinality(Written')
          /\ NextIdx' > NextIdx
          /\ \A k \in Written' : k >= NextIdx]_vars

\* C11: in every state of a Buffer in which a value has been written (next_idx
\* is past 0), the keys of last_chunk are a non-empty contiguous range of
\* integers whose largest is next_idx - 1.
C11_ChunkContiguous ==
    NextIdx > 0 =>
        LET keys == ChunkKeys(LastChunk)
        IN /\ keys # {}
           /\ (NextIdx - 1) \in keys
           /\ \A k \in keys : k <= NextIdx - 1
           /\ \A k \in keys : \A j \in k..(NextIdx - 1) : j \in keys

----------------------------------------------------------------------------
(* Properties of the BufferedAttribute *)

\* the call just made is an append_value_buffer that returned
Appended == call.op = "append_value_buffer" /\ ret.kind = "return"

\* get_value(k) ends in a late or an early miss
Misses(r) == r \in {Raise("LateValueException"), Raise("EarlyValueException")}

\* C12: after append_value_buffer(v) at index k on an owner without dependent
\* elements, get_last_chunk() is {k: v} and get_value(k) raises
\* LateValueException or EarlyValueException instead of returning a value.
C12_NonPersistentMisses ==
    (Appended /\ ~has_pseudo_elements(pseudo_elements)) =>
        LET k == NextIdx - 1
        IN /\ LastChunk = OrderedDict(<< <<k, call.value>> >>)
           /\ Misses(Buffered_get_value(Self, Py(k)))

\* C13: remove_value(idx) takes idx out of the buffer if it is there and
\* changes nothing if it is not, raising nothing either way; next_idx and
\* last_chunk stay as they were; a get_value(idx) made next raises
\* LateValueException whenever next_idx > idx.
C13_RemoveValue ==
    [][\A k \in Indexes : (call'.op = "remove_value" /\ call'.idx = Py(k)) =>
             /\ ret' = Return(None)
             /\ events' = <<>>
             /\ DOMAIN Map' = (DOMAIN Map) \ {k}
             /\ \A j \in DOMAIN Map' : Map'[j] = Map[j]
             /\ k \notin DOMAIN Map =>
                  UNCHANGED <<r_value_buffer, r_value, w_value, last_event_value>>
             /\ NextIdx' = NextIdx
             /\ LastChunk' = LastChunk
             /\ NextIdx' > k =>
                  Buffered_get_value(Self, Py(k))' = Raise("LateValueException")]_vars

\* C13 witness: remove_value took out one index of the last chunk written and
\* left another one of it in the buffer.
C13_Witness ==
    /\ call.op = "remove_value"
    /\ call.idx.py \in ChunkKeys(LastChunk)
    /\ call.idx.py \notin DOMAIN Map
    /\ NextIdx > call.idx.py
    /\ \E j \in ChunkKeys(LastChunk) : j \in DOMAIN Map

\* the call just made wrote values: an append or a non-empty extend that
\* returned
WroteValues ==
    /\ ret.kind = "return"
    /\ \/ call.op = "append_value_buffer"
       \/ call.op = "extend_value_buffer" /\ call.len >= 1

\* index k of the chunk is in the buffer with the chunk's value
Kept(buf, k) ==
    /\ k \in DOMAIN buf.map
    /\ \E i \in DOMAIN buf.last_chunk.items : buf.last_chunk.items[i] = <<k, buf.map[k]>>

\* the buffer holds at k what it held before the call, or nothing as before
Untouched(k) ==
    /\ (k \in DOMAIN Map') <=> (k \in DOMAIN Map)
    /\ k \in DOMAIN Map => Map'[k] = Map[k]

\* a dependent element still requires index k
Required(k) == is_value_required(obj, pseudo_elements, Py(k)) = Return(Bool(TRUE))

\* C14 as claimed: append_value_buffer/extend_value_buffer put a value written
\* at index k in the buffer exactly when is_value_required(k) holds at the
\* call: otherwise it goes to last_chunk only, the buffer staying as it was
\* at k.
C14_PersistIffRequired ==
    [][WroteValues' =>
          \A k \in ChunkKeys(LastChunk') :
              IF Required(k) THEN Kept(r_value_buffer', k) ELSE Untouched(k)]_vars

\* C14 as amended: they put the values written in the buffer exactly when the
\* owner has a dependent element at the call, whichever index it expects next:
\* otherwise the values go to last_chunk only and the buffer stays as it was.
C14_PersistIffDependents ==
    [][WroteValues' =>
          IF has_pseudo_elements(pseudo_elements)
          THEN \A k \in ChunkKeys(LastChunk') : Kept(r_value_buffer', k)
          ELSE Map' = Map]_vars

\* C14 witness: a value was written and kept at an index that every dependent
\* element is already past.
C14_Witness ==
    /\ WroteValues
    /\ has_pseudo_elements(pseudo_elements)
    /\ \E k \in ChunkKeys(LastChunk) : Kept(r_value_buffer, k) /\ ~Required(k)

\* the buffer events among the events of the last call
BufferEvents == {i \in DOMAIN events : events[i].type = name \o "_buffer"}

\* C15: append_value_buffer/extend_value_buffer publish the buffer event only
\* if propagate > 0: a call with propagate=0 updates the buffer and publishes
\* no event; a call with propagate >= 1 that writes values publishes exactly
\* one buffer event, whatever the change filter.
C15_BufferEventIffPropagate ==
    (call.op \in {"append_value_buffer", "extend_value_buffer"}
        /\ ret.kind = "return") =>
        /\ call.propagate = 0 => events = <<>>
        /\ (call.propagate >= 1 /\ WroteValues) => Cardinality(BufferEvents) = 1

\* get_value(k) raises LateValueException in this state
LateAt(k) == Buffered_get_value(Self, Py(k)) = Raise("LateValueException")

\* C16: once get_value(idx) raises LateValueException it raises it for good:
\* whatever is done next, get_value(idx) neither returns a value nor raises
\* EarlyValueException.
C16_LateForGood ==
    [][\A k \in Indexes : LateAt(k) => LateAt(k)']_vars

\* C17: clear_value_buffer() leaves a fresh Buffer: no index in it, no last
\* chunk, next_idx 0, so that get_value(idx) raises EarlyValueException for
\* every idx >= 0; the read slot, the write slot and the last value published
\* stay as they were.
C17_ClearValueBuffer ==
    [][call'.op = "clear_value_buffer" =>
          /\ ret' = Return(None)
          /\ Map' = << >>
          /\ LastChunk' = None
          /\ NextIdx' = 0
          /\ \A k \in 0..(MaxIdx + 1) :
                Buffered_get_value(Self, Py(k))' = Raise("EarlyValueException")
          /\ UNCHANGED <<r_value, w_value, last_event_value>>]_vars

\* C17 witness: the buffer was cleared on an attribute whose two slots are set
\* and whose read value is not the one published last.
C17_Witness ==
    /\ call.op = "clear_value_buffer"
    /\ r_value_buffer = EmptyBuffer
    /\ has_value(Self) /\ has_write_value(Self)
    /\ last_event_value # None /\ r_value # last_event_value

\* C26: every index in the buffer is below next_idx, so that get_value(idx)
\* returns no value for an index at or beyond next_idx and raises
\* EarlyValueException there.
C26_IndexesBelowNextIdx ==
    /\ \A k \in DOMAIN Map : k < NextIdx
    /\ \A k \in Indexes :
          k >= NextIdx => Buffered_get_value(Self, Py(k)) = Raise("EarlyValueException")

\* append_value_buffer, or extend_value_buffer with at least one value
WriteCalled ==
    \/ call.op = "append_value_buffer"
    \/ call.op = "extend_value_buffer" /\ call.len >= 1

\* C28: append_value_buffer, and extend_value_buffer with a sequence that is
\* not empty, fail on an attribute whose owner is absent before they touch
\* the buffer: the buffer's indexes, last_chunk and next_idx are as before
\* and no buffer event is published.
C28_OwnerlessWriteFails ==
    [][(WriteCalled' /\ get_obj(obj) = None) =>
          /\ ret'.kind = "raise"
          /\ r_value_buffer' = r_value_buffer
          /\ events' = <<>>]_vars

\* C28 witness: the owner died with a value kept in the buffer, and
\* append_value_buffer then failed.
C28_Witness ==
    /\ call.op = "append_value_buffer" /\ obj = "dead"
    /\ ret = Raise("AttributeError")
    /\ DOMAIN Map # {} /\ NextIdx > 0
    /\ events = <<>>

\* C24: a value appended at index k while the owner has no dependent element
\* is never retrievable through get_value(k), also after a dependent element
\* is registered: get_value(k) raises LateValueException.
C24_UnrequiredIsLate ==
    \A k \in unrequired : LateAt(k)

\* the call just made takes index k out of the buffer or writes it anew:
\* remove_value(k), clear_value_buffer(), or an append_value_buffer or
\* extend_value_buffer that kept its values and wrote k
Evicts(k) ==
    \/ call'.op = "remove_value" /\ call'.idx = Py(k)
    \/ call'.op = "clear_value_buffer"
    \/ /\ WroteValues'
       /\ has_pseudo_elements(pseudo_elements)
       /\ k \in ChunkKeys(LastChunk')

\* C25: a value kept in the buffer at index k stays retrievable by
\* get_value(k), with the same payload, until remove_value(k),
\* clear_value_buffer() or a later persistent write of k: no other call
\* (set_value, set_write_value, a listener or dependent element coming or
\* going, a write at other indexes) takes it away.
C25_PersistedStays ==
    [][\A k \in Indexes :
          (k \in DOMAIN Map /\ ~Evicts(k)) =>
              /\ Buffered_get_value(Self, Py(k)).kind = "return"
              /\ Buffered_get_value(Self, Py(k))' = Buffered_get_value(Self, Py(k))]_vars

\* C25 witness: index 0 was kept with one payload while the owner had a
\* dependent element, the element went away and index 0 was written again
\* with another payload: get_value(0) still returns the first.
C25_Witness ==
    /\ WroteValues /\ call.op = "append_value_buffer"
    /\ ~has_pseudo_elements(pseudo_elements)
    /\ ChunkKeys(LastChunk) = {0}
    /\ 0 \in DOMAIN Map
    /\ Buffered_get_value(Self, Py(0)) = Return(Map[0].value)
    /\ Map[0] # call.value
    /\ r_value # None /\ w_value # None /\ Len(listeners) = 1

----------------------------------------------------------------------------
(* Properties of the listener lists *)

Count(seq, x) == Cardinality({i \in DOMAIN seq : seq[i] = x})

\* each BufferedAttribute listener is in the list of buffered-attribute
\* listeners once if it is registered and not at all if it is not, and the
\* list holds nothing else
Tracked ==
    /\ \A l \in Listeners :
          Count(buffered_attribute_listeners, l) =
              IF IsBufferedAttributeListener(l) /\ l \in Range(listeners) THEN 1 ELSE 0
    /\ Range(buffered_attribute_listeners) \subseteq Listeners

\* add_listener of a registered listener, remove_listener of one that is not
Redundant(l) ==
    \/ call'.op = "add_listener" /\ call'.listener = l /\ l \in Range(listeners)
    \/ call'.op = "remove_listener" /\ call'.listener = l /\ l \notin Range(listeners)

\* C23: after any sequence of add_listener/remove_listener the list of
\* buffered-attribute listeners holds each BufferedAttribute listener at most
\* once and exactly when it is registered; adding a registered listener or
\* removing an unregistered one changes neither list.
C23_ListenersTracked ==
    /\ []Tracked
    /\ [][\A l \in Listeners :
              Redundant(l) => UNCHANGED <<listeners, buffered_attribute_listeners>>]_vars

\* add_listener of a BufferedAttribute listener that was registered before
\* the plain listener next to it: it is still tracked once
C23_Witness ==
    /\ call.op = "add_listener"
    /\ IsBufferedAttributeListener(call.listener)
    /\ Len(listeners) = 2
    /\ listeners[1] = call.listener
    /\ ~IsBufferedAttributeListener(listeners[2])
    /\ buffered_attribute_listeners = <<call.listener>>

----------------------------------------------------------------------------
(* Properties of concurrent calls *)

\* the buffer the writer's call leaves when it runs alone
WriterAfter ==
    IF Writer.op = "append"
    THEN Buffer_append(Writer.called.buffer, Writer.called.objs[1],
                       Writer.called.idx, Writer.persistent)
    ELSE Buffer_extend(Writer.called.buffer, Writer.called.objs,
                       Writer.called.idx, Writer.persistent).buffer

\* The statements of a call, run with nothing in between, do what the call
\* does in one step.
WriterStepsAgree ==
    Writer.pc = "fire" => r_value_buffer = WriterAfter

\* C22: append_value_buffer/extend_value_buffer are atomic for a concurrent
\* reader: while a call is in progress the buffer a reader finds (map,
\* last_chunk, next_idx) is the one of before the call or the one the call
\* leaves, never one with part of the update.
C22_NoPartialUpdate ==
    Writer.pc # "idle" => r_value_buffer \in {Writer.called.buffer, WriterAfter}

\* C29: get_value(idx) running while the buffer is written to raises
\* LateValueException for no index that is in the buffer at the moment it
\* raises: its lookup and its comparison with next_idx are as one step.
C29_LateOnlyIfAbsent ==
    [][(Reader.pc = "except" /\ Reader'.pc = "returned"
           /\ Reader'.ret = Raise("LateValueException")) =>
          Reader'.idx.py \notin DOMAIN Map']_vars

====
